---- MODULE Spec2Model ----
(***************************************************************************)
(* Checkout / order-creation transaction of the memory-card storefront     *)
(* backend (FastAPI + SQLAlchemy AsyncSession on PostgreSQL).              *)
(*                                                                         *)
(* The database is modelled at statement granularity under PostgreSQL's    *)
(* default READ COMMITTED isolation (core/database.py creates the engine   *)
(* without an isolation level): every statement reads the committed rows   *)
(* plus the session's own pending writes; an UPDATE or DELETE takes the    *)
(* row lock and waits while another open transaction holds it; pending     *)
(* writes become visible to other sessions at COMMIT and vanish at         *)
(* ROLLBACK or when the session is closed with a transaction still open.   *)
(* The ORM unit of work writes absolute column values                      *)
(* (UPDATE ... SET stock = <value held by the loaded object>), and         *)
(* Session.get() answers from the identity map when the object is loaded.  *)
(* Deadlock detection by the storage engine is not modelled: sessions      *)
(* that wait for each other in a cycle stay blocked.                       *)
(*                                                                         *)
(* Money is counted in cents; unrounded float amounts in 1/100 cent.       *)
(***************************************************************************)
EXTENDS Integers, Sequences, FiniteSets, TLC

Users == {"u1", "u2"}
Products == {"g1", "g2"}
Sessions == {"s1", "s2"}

\* bounds of the model
MaxStock == 2
MaxQty == 2
MaxItems == 2
MaxOrders == 2
MaxClock == 2

\* prices a product can carry, in cents
PriceSet == {3999, 5999}
\* payment references a checkout request can carry ("none" = NULL)
Refs == {"none", "pi_1"}

\* TAX_RATE = 0.10, as a percentage
TAX_RATE == 10

OrderStatus == {"pending", "paid", "completed", "cancelled"}

VARIABLES
    stock,          \* game_catalog.stock, committed
    price,          \* game_catalog.price, committed
    carts,          \* users that have a carts row
    cart_items,     \* committed cart_items rows
    next_item_id,   \* cart_items id sequence
    orders,         \* committed orders rows, each with its order_items
    next_order_id,  \* orders id sequence
    clock,          \* wall clock read by datetime.now()
    sess,           \* per request session: position and session-local objects
    cache,          \* the cache store: key |-> stored text, for the keys present
    fetches,        \* history: how often fetch_func was invoked, per key
    reply,          \* the last call of the cache service and what it gave back
    rawg,           \* the upstream client's request in progress
    game_catalog,   \* committed game_catalog rows: id and rawg_id
    next_game_id,   \* game_catalog id sequence
    reviews,        \* committed reviews rows
    next_review_id  \* reviews id sequence

db == <<stock, price, carts, cart_items, next_item_id, orders, next_order_id, clock>>
\* the catalog proxy: cache store, cache service and upstream client
ext == <<cache, fetches, reply, rawg>>
\* the catalog's rows and the reviews
cat == <<game_catalog, next_game_id, reviews, next_review_id>>
vars == <<stock, price, carts, cart_items, next_item_id, orders, next_order_id, clock, sess,
          cache, fetches, reply, rawg, game_catalog, next_game_id, reviews, next_review_id>>

----------------------------------------------------------------------------
\* Sequence helpers

RECURSIVE SumSeq(_)
SumSeq(s) == IF s = <<>> THEN 0 ELSE Head(s) + SumSeq(Tail(s))

RECURSIVE SetToSeqById(_)
\* rows of a set in id order (the order the rows were inserted)
SetToSeqById(S) ==
    IF S = {} THEN <<>>
    ELSE LET r == CHOOSE x \in S : \A y \in S : x.id <= y.id
         IN <<r>> \o SetToSeqById(S \ {r})


----------------------------------------------------------------------------
\* Session-local state of one request (one AsyncSession, core/database.py get_db)

IdleSession ==
    [pc        |-> "idle",
     user_id   |-> "none",   \* authenticated user of the request
     ref       |-> "none",   \* stripe_payment_intent_id of the request
     nested    |-> FALSE,    \* the transaction block is a SAVEPOINT of an open transaction
     cart      |-> FALSE,    \* a carts row was found
     cart_lock |-> FALSE,    \* the session holds the row lock of that carts row
     items     |-> <<>>,     \* cart.items as loaded into the identity map
     seen      |-> [g \in Products |-> 0],  \* game.stock as loaded with the items
     seen_price|-> [g \in Products |-> 0],  \* game.price as loaded with the items
     idx       |-> 0,        \* lines already handled by the reduce_stock loop
     order     |-> {},       \* orders row (with its order_items) flushed, not committed
     created   |-> 0,        \* id of the order created by this request
     written   |-> {},       \* game_catalog rows updated and locked, not committed
     deleted   |-> {},       \* cart_items rows deleted and locked, not committed
     effects   |-> {},       \* history: tables this request has changed by a COMMIT
     arg_game  |-> "none",
     arg_qty   |-> 0,
     arg_id    |-> 0,
     result    |-> "",       \* outcome of the service call
     status_code |-> 0,      \* HTTP status of the response
     body      |-> {}]       \* the order the response carries

\* a request is served on the first session that is free
Accepts(s) == sess[s].pc = "idle" /\ (s = "s2" => sess["s1"].pc # "idle")

\* ids of the game_catalog rows
GameIds == {r.id : r \in game_catalog}

\* the foreign key of a line's game_id: some loaded line names a row that is gone
GameGone(items) == \E i \in 1..Len(items) : items[i].game_id \notin GameIds

CartItemsOf(u) == {i \in cart_items : i.user_id = u}

GamesOf(items) == {items[i].game_id : i \in 1..Len(items)}

\* quantity the first n lines of a loaded cart ask of product g
LineQty(items, n, g) ==
    SumSeq([i \in 1..n |-> IF items[i].game_id = g THEN items[i].quantity ELSE 0])

\* game.stock of the object in the session's identity map: the value loaded,
\* lowered by every reduce_stock of this session (refresh reads its own write)
CurStock(c, g) == c.seen[g] - LineQty(c.items, c.idx, g)

\* a row another open transaction has written is locked until that transaction ends
GameLocked(s, g) == \E t \in Sessions \ {s} : g \in sess[t].written
ItemLocked(s, id) == \E t \in Sessions \ {s} : id \in sess[t].deleted
CartLocked(s, u) == \E t \in Sessions \ {s} : sess[t].cart_lock /\ sess[t].user_id = u
GameLockedByAny(g) == \E t \in Sessions : g \in sess[t].written
ItemLockedByAny(id) == \E t \in Sessions : id \in sess[t].deleted

\* COMMIT of the session's open transaction: its pending writes reach the tables
StockAfterCommit(c) == [g \in Products |-> IF g \in c.written THEN CurStock(c, g) ELSE stock[g]]
OrdersAfterCommit(c) == orders \cup c.order
ItemsAfterCommit(c) == {i \in cart_items : i.id \notin c.deleted}
EffectsOfCommit(c) ==
    c.effects \cup (IF c.order # {} THEN {"orders"} ELSE {})
              \cup (IF c.written # {} THEN {"game_catalog"} ELSE {})
              \cup (IF c.deleted # {} THEN {"cart_items"} ELSE {})
Committed(c) ==
    [c EXCEPT !.order = {}, !.written = {}, !.deleted = {}, !.cart_lock = FALSE,
              !.effects = EffectsOfCommit(c)]

\* ROLLBACK (of the transaction or to the savepoint) when an exception leaves
\* the `async with` block: pending writes and locks go
RolledBack(c, why) ==
    [IdleSession EXCEPT !.pc = "ck_failed", !.result = why, !.user_id = c.user_id,
                        !.nested = c.nested, !.created = c.created, !.effects = c.effects]

----------------------------------------------------------------------------
\* Pricing (PostgresOrderRepository.create_from_cart)

\* a rounding that cuts the amount off at the cent
Truncate2(x) == {x \div 100}

\* round(x, 2) of a float amount x given in 1/100 cent, in cents.  An amount that
\* lies exactly between two cents is decided by the binary representation of the
\* float, so both neighbours are possible results.
Round2(x) ==
    LET q == x \div 100
        r == x % 100
    IN IF r < 50 THEN {q} ELSE IF r > 50 THEN {q + 1} ELSE {q, q + 1}

\* line_subtotal = item.quantity * float(item.game.price), in cents
LineSubtotal(item, prices) == item.quantity * prices[item.game_id]

\* the unrounded sums of the loop: <<subtotal, tax>> in 1/100 cent
RawTotals(items, prices) ==
    <<SumSeq([i \in 1..Len(items) |-> LineSubtotal(items[i], prices) * 100]),
      SumSeq([i \in 1..Len(items) |-> LineSubtotal(items[i], prices) * TAX_RATE])>>

\* OrderItem rows: the snapshot of the purchase
OrderItems(items, prices) ==
    [i \in 1..Len(items) |->
        [game_id    |-> items[i].game_id,
         quantity   |-> items[i].quantity,
         unit_price |-> prices[items[i].game_id],
         subtotal   |-> items[i].quantity * prices[items[i].game_id]]]

\* the Order row built by create_from_cart
NewOrder(id, user_id, items, prices, ref, subtotal, tax) ==
    [id           |-> id,
     user_id      |-> user_id,
     subtotal     |-> subtotal,
     tax          |-> tax,
     total        |-> subtotal + tax,
     status       |-> "pending",
     ref          |-> ref,
     completed_at |-> 0,
     items        |-> OrderItems(items, prices)]

----------------------------------------------------------------------------
\* Checkout: OrderService.create_order_from_cart

\* .execution_options(with_for_update=True) sets an execution option the ORM
\* does not consume; only Select.with_for_update() renders FOR UPDATE.  The
\* statement sent is a plain SELECT and takes no row lock.
ForUpdateRendered == FALSE

\* `session.begin_nested() if session.in_transaction() else session.begin()`,
\* then get_cart_with_items_for_update: the carts row, its items and their games
\* (selectinload) read from the committed rows
get_cart_with_items_for_update(s, u, ref, in_transaction) ==
    /\ Accepts(s)
    /\ ForUpdateRendered => ~CartLocked(s, u)
    /\ LET items == SetToSeqById(CartItemsOf(u))
       IN sess' = [sess EXCEPT ![s] =
              [IdleSession EXCEPT
                  !.pc = "ck_loaded", !.user_id = u, !.ref = ref,
                  !.nested = in_transaction,
                  !.cart = (u \in carts),
                  !.cart_lock = (ForUpdateRendered /\ u \in carts),
                  !.items = items,
                  !.seen = [g \in Products |-> IF g \in GamesOf(items) THEN stock[g] ELSE 0],
                  !.seen_price = [g \in Products |-> IF g \in GamesOf(items) THEN price[g] ELSE 0]]]
    /\ UNCHANGED <<db, ext, cat>>

\* `if not cart or not cart.items`
EmptyCart(c) == ~c.cart \/ c.items = <<>>

\* a validation loop that lets every line through
StockShortNever(c) == FALSE

\* `if item.game.stock < item.quantity`, for some line of the loop
StockShort(c) ==
    \E i \in 1..Len(c.items) : c.seen[c.items[i].game_id] < c.items[i].quantity

raise_empty_cart(s) ==
    /\ sess[s].pc = "ck_loaded"
    /\ EmptyCart(sess[s])
    /\ sess' = [sess EXCEPT ![s] = RolledBack(@, "EmptyCart")]
    /\ UNCHANGED <<db, ext, cat>>

raise_insufficient_stock(s) ==
    /\ sess[s].pc = "ck_loaded"
    /\ ~EmptyCart(sess[s])
    /\ StockShort(sess[s])
    /\ sess' = [sess EXCEPT ![s] = RolledBack(@, "InsufficientStock")]
    /\ UNCHANGED <<db, ext, cat>>

\* an orders table without the unique index
RefTakenNever(ref) == FALSE

\* the unique index on orders.stripe_payment_intent_id
RefTaken(ref) == ref # "none" /\ \E o \in orders : o.ref = ref
RefPending(s, ref) ==
    ref # "none" /\ \E t \in Sessions \ {s} : \E o \in sess[t].order : o.ref = ref

\* order_repo.create_from_cart: INSERT of the order and its items, flushed; the
\* INSERTs fail on the unique index of the payment reference or on the foreign
\* key of a line's game_id
create_from_cart(s) ==
    LET c == sess[s]
        raw == RawTotals(c.items, c.seen_price)
    IN /\ c.pc = "ck_loaded"
       /\ ~EmptyCart(c) /\ ~StockShort(c)
       /\ next_order_id <= MaxOrders
       /\ ~RefPending(s, c.ref)
       /\ next_order_id' = next_order_id + 1
       /\ IF RefTaken(c.ref) \/ GameGone(c.items)
          THEN sess' = [sess EXCEPT ![s] = RolledBack(c, "IntegrityError")]
          ELSE \E subtotal \in Round2(raw[1]) : \E tax \in Round2(raw[2]) :
                 sess' = [sess EXCEPT ![s] =
                    [c EXCEPT !.pc = "ck_ordered", !.created = next_order_id,
                              !.order = {NewOrder(next_order_id, c.user_id, c.items,
                                                  c.seen_price, c.ref, subtotal, tax)}]]
       /\ UNCHANGED <<stock, price, carts, cart_items, next_item_id, orders, clock, ext, cat>>

\* a reduce_stock without its check
InsufficientNever(available, quantity) == FALSE

\* `if game.stock < quantity` of reduce_stock
Insufficient(available, quantity) == available < quantity

\* a repository that commits whether or not it was handed the caller's session
PersistCommits(session) == "commit"

\* `if session: flush() else: commit()` of reduce_stock, increase_stock, clear_cart
Persist(session) == IF session THEN "flush" ELSE "commit"

\* game_repo.reduce_stock(item.game_id, item.quantity, session=session) for the
\* next line of the loop.  db.get answers from the identity map; the flush sends
\* UPDATE game_catalog SET stock = <new value> and waits for the row lock.
reduce_stock(s) ==
    LET c == sess[s]
        item == c.items[c.idx + 1]
        g == item.game_id
        after == [c EXCEPT !.idx = @ + 1, !.written = @ \cup {g}]
    IN /\ c.pc = "ck_ordered"
       /\ c.idx < Len(c.items)
       /\ IF Insufficient(CurStock(c, g), item.quantity)
          THEN /\ sess' = [sess EXCEPT ![s] = RolledBack(c, "InsufficientStock")]
               /\ UNCHANGED <<db, ext, cat>>
          ELSE /\ ~GameLocked(s, g)
               /\ IF Persist(TRUE) = "flush"
                  THEN /\ sess' = [sess EXCEPT ![s] = after]
                       /\ UNCHANGED <<db, ext, cat>>
                  ELSE /\ sess' = [sess EXCEPT ![s] = Committed(after)]
                       /\ stock' = StockAfterCommit(after)
                       /\ orders' = OrdersAfterCommit(after)
                       /\ cart_items' = ItemsAfterCommit(after)
                       /\ UNCHANGED <<price, carts, next_item_id, next_order_id, clock, ext, cat>>

\* cart_repo.clear_cart(user_id, session=session): DELETE of every loaded item
\* (a row already gone matches nothing and only warns), flushed
clear_cart(s) ==
    LET c == sess[s]
        ids == {c.items[i].id : i \in 1..Len(c.items)} \cap {i.id : i \in cart_items}
        after == [c EXCEPT !.pc = "ck_cleared", !.deleted = ids]
    IN /\ c.pc = "ck_ordered"
       /\ c.idx = Len(c.items)
       /\ \A id \in ids : ~ItemLocked(s, id)
       /\ IF Persist(TRUE) = "flush"
          THEN /\ sess' = [sess EXCEPT ![s] = after]
               /\ UNCHANGED <<db, ext, cat>>
          ELSE /\ sess' = [sess EXCEPT ![s] = Committed(after)]
               /\ stock' = StockAfterCommit(after)
               /\ orders' = OrdersAfterCommit(after)
               /\ cart_items' = ItemsAfterCommit(after)
               /\ UNCHANGED <<price, carts, next_item_id, next_order_id, clock, ext, cat>>

\* the session once create_order_from_cart has returned its OrderResponse: the
\* loaded cart is of no further use, writes still pending stay pending
Returned(c) ==
    [IdleSession EXCEPT !.pc = "ck_returned", !.result = "ok", !.user_id = c.user_id,
                        !.nested = c.nested, !.created = c.created, !.effects = c.effects,
                        !.order = c.order, !.written = c.written, !.deleted = c.deleted,
                        !.cart_lock = c.cart_lock]

\* leaving the `async with` block without an exception: session.begin() commits,
\* session.begin_nested() only releases the savepoint and leaves the enclosing
\* transaction open.  Then get_by_id and _enrich_order build the response.
exit_transaction(s) ==
    LET c == sess[s]
    IN /\ c.pc = "ck_cleared"
       /\ IF c.nested
          THEN /\ sess' = [sess EXCEPT ![s] = Returned(c)]
               /\ UNCHANGED <<db, ext, cat>>
          ELSE /\ sess' = [sess EXCEPT ![s] = Returned(Committed(c))]
               /\ stock' = StockAfterCommit(c)
               /\ orders' = OrdersAfterCommit(c)
               /\ cart_items' = ItemsAfterCommit(c)
               /\ UNCHANGED <<price, carts, next_item_id, next_order_id, clock, ext, cat>>

\* get_db: `finally: await session.close()`.  A transaction still open is rolled
\* back; nothing is committed here.
close_session(s) ==
    /\ sess[s].pc \in {"ck_returned", "ck_failed", "responded"}
    /\ sess' = [sess EXCEPT ![s] = IdleSession]
    /\ UNCHANGED <<db, ext, cat>>



----------------------------------------------------------------------------
\* Cart requests (CartService / PostgresCartRepository), each on its own session

\* CartService.add_to_cart up to the SELECT of add_item: the game must exist and
\* its stock cover the requested quantity (a ValueError changes nothing), get_or_create_cart
\* (committed), and the lookup of an existing line with scalar_one_or_none(),
\* which raises MultipleResultsFound when the cart holds the product twice
add_to_cart(s, u, g, q) ==
    LET existing == {i \in CartItemsOf(u) : i.game_id = g}
    IN /\ Accepts(s)
       /\ IF g \notin GameIds \/ stock[g] < q
          THEN UNCHANGED vars
          ELSE /\ carts' = carts \cup {u}
               /\ sess' = [sess EXCEPT ![s] =
                     IF Cardinality(existing) > 1
                     THEN IdleSession
                     ELSE [IdleSession EXCEPT !.pc = "add_read", !.user_id = u,
                                              !.arg_game = g, !.arg_qty = q,
                                              !.items = SetToSeqById(existing)]]
               /\ UNCHANGED <<stock, price, cart_items, next_item_id, orders,
                              next_order_id, clock, ext, cat>>

\* the rest of add_item: `existing_item.quantity += quantity` on the loaded row
\* or a new CartItem, then commit and the end of the request.  The UPDATE waits
\* while the row is locked and matches nothing when the row is gone
\* (StaleDataError); the INSERT of a line whose game is gone fails on the
\* foreign key, having drawn its id from the sequence.
add_item(s) ==
    LET c == sess[s]
    IN /\ c.pc = "add_read"
       /\ IF c.items # <<>>
          THEN LET old == c.items[1]
                   new == [old EXCEPT !.quantity = @ + c.arg_qty]
               IN /\ new.quantity <= MaxQty
                  /\ ~ItemLocked(s, old.id)
                  /\ cart_items' = {IF i.id = old.id THEN new ELSE i : i \in cart_items}
                  /\ UNCHANGED next_item_id
          ELSE /\ next_item_id <= MaxItems
               /\ cart_items' = cart_items \cup
                     {[id |-> next_item_id, user_id |-> c.user_id,
                       game_id |-> g, quantity |-> c.arg_qty] : g \in {c.arg_game} \cap GameIds}
               /\ next_item_id' = next_item_id + 1
       /\ sess' = [sess EXCEPT ![s] = IdleSession]
       /\ UNCHANGED <<stock, price, carts, orders, next_order_id, clock, ext, cat>>

\* a lookup of the line by its id alone, whoever owns the cart
AnyLine(items, u, id) == {i \in items : i.id = id}

\* the line with this id in the caller's own cart: `cart.items` of
\* get_cart_with_items(user_id), and the join on Cart.user_id == user_id
OwnLine(items, u, id) == {i \in items : i.user_id = u /\ i.id = id}

\* what PUT /cart/items/{item_id} answers: 400 with the ValueError's text, which
\* names the item id, or 200
update_item_response(items, crts, u, id, q) ==
    LET cart_item == OwnLine(items, u, id)
    IN IF u \notin crts
       THEN [status_code |-> 400, detail |-> "Carrito no encontrado", item_id |-> 0]
       ELSE IF cart_item = {}
       THEN [status_code |-> 400, detail |-> "Item no encontrado o no pertenece",
             item_id |-> id]
       ELSE IF \E i \in cart_item : stock[i.game_id] < q
       THEN [status_code |-> 400, detail |-> "Stock insuficiente", item_id |-> 0]
       ELSE [status_code |-> 200, detail |-> "none", item_id |-> 0]

\* what DELETE /cart/items/{item_id} answers: 404 with the ValueError's text, or 204
remove_item_response(items, u, id) ==
    IF OwnLine(items, u, id) = {}
    THEN [status_code |-> 404, detail |-> "Item no encontrado o no pertenece",
          item_id |-> id]
    ELSE [status_code |-> 204, detail |-> "none", item_id |-> 0]

\* CartService.update_item with update_item_quantity, through its route: the
\* line is looked up among the caller's own, the game's stock must cover the
\* new quantity, and the UPDATE waits while the row is locked
update_item(s, u, id, q) ==
    LET r == update_item_response(cart_items, carts, u, id, q)
    IN /\ Accepts(s)
       /\ IF r.status_code = 200
          THEN /\ ~ItemLockedByAny(id)
               /\ cart_items' =
                     {IF i.id = id THEN [i EXCEPT !.quantity = q] ELSE i : i \in cart_items}
          ELSE UNCHANGED cart_items
       /\ sess' = [sess EXCEPT ![s] =
              [IdleSession EXCEPT !.pc = "responded", !.user_id = u, !.arg_id = id,
                                  !.status_code = r.status_code, !.result = r.detail]]
       /\ UNCHANGED <<stock, price, carts, next_item_id, orders, next_order_id, clock, ext, cat>>

\* CartService.remove_item with remove_item, through its route
remove_item(s, u, id) ==
    LET r == remove_item_response(cart_items, u, id)
    IN /\ Accepts(s)
       /\ IF r.status_code = 204
          THEN /\ ~ItemLockedByAny(id)
               /\ cart_items' = {i \in cart_items : i.id # id}
          ELSE UNCHANGED cart_items
       /\ sess' = [sess EXCEPT ![s] =
              [IdleSession EXCEPT !.pc = "responded", !.user_id = u, !.arg_id = id,
                                  !.status_code = r.status_code, !.result = r.detail]]
       /\ UNCHANGED <<stock, price, carts, next_item_id, orders, next_order_id, clock, ext, cat>>

----------------------------------------------------------------------------
\* Product requests (PostgresGameCatalogRepository), each on its own session

\* update(game_id, GameCatalogUpdate): setattr of the fields the request carries
\* (model_dump(exclude_unset=True)), then commit.  GameCatalogUpdate admits
\* price > 0 and stock >= 0 and has no rawg_id field; a game that does not
\* exist gives None and nothing is written.
update(g, game_data) ==
    /\ g \in GameIds
    /\ "price" \in DOMAIN game_data => game_data["price"] > 0
    /\ "stock" \in DOMAIN game_data => game_data["stock"] >= 0
    /\ ~GameLockedByAny(g)
    /\ price' = IF "price" \in DOMAIN game_data
                THEN [price EXCEPT ![g] = game_data["price"]] ELSE price
    /\ stock' = IF "stock" \in DOMAIN game_data
                THEN [stock EXCEPT ![g] = game_data["stock"]] ELSE stock
    /\ UNCHANGED <<carts, cart_items, next_item_id, orders, next_order_id, clock, sess, ext, cat>>

\* `game = await db.get(GameCatalog, game_id)` of reduce_stock / increase_stock
\* called without a session: the row as committed, loaded by the repository's
\* own session
get_game(s, op, g, q) ==
    /\ Accepts(s)
    /\ g \in GameIds
    /\ op = "increase_stock" => stock[g] + q <= MaxStock
    /\ sess' = [sess EXCEPT ![s] =
           [IdleSession EXCEPT !.pc = op, !.arg_game = g, !.arg_qty = q,
                               !.seen = [x \in Products |-> IF x = g THEN stock[g] ELSE 0]]]
    /\ UNCHANGED <<db, ext, cat>>

\* the rest of reduce_stock(game_id, quantity): the check on the loaded value,
\* `game.stock -= quantity`, commit
reduce_stock_commit(s) ==
    LET c == sess[s]
        g == c.arg_game
    IN /\ c.pc = "reduce_stock"
       /\ Persist(FALSE) = "commit"
       /\ IF Insufficient(c.seen[g], c.arg_qty)
          THEN stock' = stock
          ELSE /\ ~GameLocked(s, g)
               /\ stock' = [stock EXCEPT ![g] = c.seen[g] - c.arg_qty]
       /\ sess' = [sess EXCEPT ![s] = IdleSession]
       /\ UNCHANGED <<price, carts, cart_items, next_item_id, orders, next_order_id, clock, ext, cat>>

\* an increase that ignores the quantity asked for
IncreasedByOne(available, quantity) == available + 1

\* `game.stock += quantity`
Increased(available, quantity) == available + quantity

\* the rest of increase_stock(game_id, quantity): `game.stock += quantity`, commit
increase_stock_commit(s) ==
    LET c == sess[s]
        g == c.arg_game
    IN /\ c.pc = "increase_stock"
       /\ Persist(FALSE) = "commit"
       /\ ~GameLocked(s, g)
       /\ stock' = [stock EXCEPT ![g] = Increased(c.seen[g], c.arg_qty)]
       /\ sess' = [sess EXCEPT ![s] = IdleSession]
       /\ UNCHANGED <<price, carts, cart_items, next_item_id, orders, next_order_id, clock, ext, cat>>

----------------------------------------------------------------------------
\* Order requests (OrderService / PostgresOrderRepository / routes/order.py)

\* an update that rebuilds the row and loses its tax
WithStatusOnly(o, status, now) ==
    [o EXCEPT !.status = status, !.tax = 0, !.total = o.subtotal]

\* an update that keeps a completion timestamp only on COMPLETED rows
WithStatusClearing(o, status, now) ==
    [o EXCEPT !.status = status,
              !.completed_at = IF status = "completed" THEN now ELSE 0]

\* the row after update_status: status always, completed_at when the new status
\* is COMPLETED
WithStatus(o, status, now) ==
    [o EXCEPT !.status = status,
              !.completed_at = IF status = "completed" THEN now ELSE @]

\* update_order_status: get_by_id, the assignments, commit
update_status(order_id, status) ==
    /\ \E o \in orders : o.id = order_id
    /\ clock < MaxClock
    /\ clock' = clock + 1
    /\ orders' = {IF o.id = order_id THEN WithStatus(o, status, clock') ELSE o : o \in orders}
    /\ UNCHANGED <<stock, price, carts, cart_items, next_item_id, next_order_id, sess, ext, cat>>

\* a lookup without the ownership check
OwnsAny(o, user_id) == TRUE

\* `user_id is not None and order.user_id != user_id` of get_order, negated
Owns(o, user_id) == o.user_id = user_id

\* OrderService.get_order(order_id, user_id): the order, or None when there is
\* no such order or it is another user's
get_order(tbl, order_id, user_id) ==
    LET found == {o \in tbl : o.id = order_id}
    IN IF found = {} THEN {}
       ELSE IF ~(\A o \in found : Owns(o, user_id)) THEN {}
       ELSE found

\* the response of GET /orders/{order_id}: 404 with a detail that names only the
\* requested id, or the order
Response(found, order_id) ==
    IF found = {}
    THEN [status_code |-> 404, detail |-> order_id, body |-> {}]
    ELSE [status_code |-> 200, detail |-> 0, body |-> found]

\* routes/order.py get_order_details for the authenticated user
get_order_details(s, order_id, u) ==
    LET r == Response(get_order(orders, order_id, u), order_id)
    IN /\ Accepts(s)
       /\ sess' = [sess EXCEPT ![s] =
              [IdleSession EXCEPT !.pc = "responded", !.user_id = u, !.arg_id = order_id,
                                  !.status_code = r.status_code, !.body = r.body]]
       /\ UNCHANGED <<db, ext, cat>>

----------------------------------------------------------------------------
\* Catalog proxy: CatalogService over CacheService and the Redis repository.
\* A str (cache key, pattern, stored value) is the sequence of its characters;
\* an Optional is None or Some(x).

\* bounds of the model: calls of the cache service, and how often SCAN
\* returns a key again
MaxCalls == 4
MaxRepeats == 1

\* settings.CACHE_DEFAULT_TTL, in seconds
CACHE_DEFAULT_TTL == 86400

None == <<>>
Some(x) == <<x>>

Digits == <<"0", "1", "2", "3", "4", "5", "6", "7", "8", "9">>

\* str(n) of a non-negative int
RECURSIVE str(_)
str(n) == IF n < 10 THEN <<Digits[n + 1]>>
          ELSE str(n \div 10) \o <<Digits[(n % 10) + 1]>>

\* int(text) of a run of decimal digits
RECURSIVE int(_)
int(text) ==
    IF text = <<>> THEN 0
    ELSE 10 * int(SubSeq(text, 1, Len(text) - 1))
         + (CHOOSE d \in 0..9 : Digits[d + 1] = text[Len(text)])

\* ":".join(key_parts)
RECURSIVE join(_)
join(key_parts) ==
    IF key_parts = <<>> THEN <<>>
    ELSE IF Len(key_parts) = 1 THEN key_parts[1]
    ELSE key_parts[1] \o <<":">> \o join(Tail(key_parts))

\* CacheService.build_key(namespace, *parts); an int part is passed as str(part)
build_key(namespace, parts) == join(<<namespace>> \o parts)

\* `x or default` on an Optional str: None and the empty str are falsy
Or(x, default) == IF x = None \/ x = Some(<<>>) THEN default ELSE x[1]

T_rawg == <<"r", "a", "w", "g">>
T_search == <<"s", "e", "a", "r", "c", "h">>
T_game == <<"g", "a", "m", "e">>
T_genres == <<"g", "e", "n", "r", "e", "s">>
T_none == <<"n", "o", "n", "e">>

\* the cache_key of CatalogService.search_games
search_key(query, page, page_size, genres, platforms) ==
    build_key(T_rawg, << T_search,
                         query,
                         <<"p">> \o str(page),
                         <<"p", "s">> \o str(page_size),
                         <<"g">> \o Or(genres, T_none),
                         <<"p", "l">> \o Or(platforms, T_none) >>)

\* the cache_key of CatalogService.get_game_details
game_key(game_id) == build_key(T_rawg, <<T_game, str(game_id)>>)

\* the cache_key of CatalogService.list_genres
genres_key == build_key(T_rawg, <<T_genres>>)

\* what a fetch function returns: model_dump(mode="json") of a RAWG response,
\* here the JSON object {"count": n}
Data == [count : 0..1]

\* json.dumps(fresh_data): the text {"count": n}
json_dumps(fresh_data) ==
    <<"{", "\"", "c", "o", "u", "n", "t", "\"", ":", " ">>
        \o str(fresh_data.count) \o <<"}">>

\* json.loads(cached_value) of such a text
json_loads(cached_value) ==
    [count |-> int(SubSeq(cached_value, 11, Len(cached_value) - 1))]

\* RedisCacheRepository.get: the stored text, or None
get(key) == IF key \in DOMAIN cache THEN Some(cache[key].value) ELSE None

\* RedisCacheRepository.set: SETEX when `ttl` is truthy, SET otherwise
set(c, key, value, ttl) ==
    [k \in DOMAIN c \cup {key} |->
        IF k = key THEN [value |-> value, expires |-> ttl # 0] ELSE c[k]]

\* RedisCacheRepository.delete
delete(c, key) == [k \in DOMAIN c \ {key} |-> c[k]]

\* a cache service that never finds an entry
IsHitNever(cached_value) == FALSE

\* `cached_value is not None`
IsHit(cached_value) == cached_value # None

\* `ttl if ttl is not None else self.default_ttl`
ttl_to_use(ttl) == IF ttl # None THEN ttl[1] ELSE CACHE_DEFAULT_TTL

\* no cache service call made yet; `after` is how the call before the last
\* get_or_set ended
NoReply ==
    [n |-> 0, last |-> "none", op |-> "none", request |-> <<>>, key |-> <<>>,
     ttl |-> None, pc |-> "idle", hit |-> FALSE, value |-> None, error |-> "none",
     after |-> "idle", pattern |-> <<>>, count |-> 0]

\* how often fetch_func has run for a key
Invocations(key) == IF key \in DOMAIN fetches THEN fetches[key].n ELSE 0

\* the history after one more get_or_set(key) made for `request`
Noted(key, request, ran) ==
    [k \in DOMAIN fetches \cup {key} |->
        IF k = key
        THEN [n |-> Invocations(key) + ran,
              requests |-> (IF key \in DOMAIN fetches THEN fetches[key].requests ELSE {})
                           \cup {request}]
        ELSE fetches[k]]

\* CacheService.get_or_set(key, fetch_func, ttl) up to `await fetch_func()`,
\* called by the catalog operation `op` for `request`
get_or_set(op, request, key, ttl) ==
    LET cached_value == get(key)
        call == [NoReply EXCEPT !.n = reply.n + 1, !.last = "get_or_set", !.op = op,
                                !.request = request, !.key = key, !.ttl = ttl,
                                !.after = reply.pc,
                                !.pattern = reply.pattern, !.count = reply.count]
    IN /\ reply.pc # "fetching"
       /\ reply.n < MaxCalls
       /\ IF IsHit(cached_value)
          THEN /\ reply' = [call EXCEPT !.pc = "returned", !.hit = TRUE,
                                        !.value = Some(json_loads(cached_value[1]))]
               /\ fetches' = Noted(key, request, 0)
          ELSE /\ reply' = [call EXCEPT !.pc = "fetching"]
               /\ fetches' = Noted(key, request, 1)
       /\ UNCHANGED <<db, cat, sess, cache, rawg>>

\* CatalogService.search_games
search_games(query, page, page_size, genres, platforms) ==
    get_or_set("search_games", <<query, page, page_size, genres, platforms>>,
               search_key(query, page, page_size, genres, platforms), None)

\* CatalogService.get_game_details
get_game_details(game_id) ==
    get_or_set("get_game_details", <<game_id>>, game_key(game_id), None)

\* CatalogService.list_genres, cached for seven days
list_genres ==
    get_or_set("list_genres", <<>>, genres_key, Some(604800))

\* the rest of get_or_set when fetch_func returns: store the text, return the data
fetch_returns(fresh_data) ==
    /\ reply.pc = "fetching"
    /\ cache' = set(cache, reply.key, json_dumps(fresh_data), ttl_to_use(reply.ttl))
    /\ reply' = [reply EXCEPT !.pc = "returned", !.value = Some(fresh_data)]
    /\ UNCHANGED <<db, cat, sess, fetches, rawg>>

\* a cache service that stores an empty result when fetch_func raises
StoreOnError(c, key, ttl) == set(c, key, json_dumps([count |-> 0]), ttl)

\* get_or_set has no handler around `await fetch_func()`: the lines after it do
\* not run when it raises
LeaveOnError(c, key, ttl) == c

\* the rest of get_or_set when fetch_func raises
fetch_raises(error) ==
    /\ reply.pc = "fetching"
    /\ cache' = LeaveOnError(cache, reply.key, ttl_to_use(reply.ttl))
    /\ reply' = [reply EXCEPT !.pc = "raised", !.error = error]
    /\ UNCHANGED <<db, cat, sess, fetches, rawg>>

\* CacheService.invalidate(key)
invalidate(key) ==
    /\ reply.n < MaxCalls
    /\ cache' = delete(cache, key)
    /\ reply' = [reply EXCEPT !.n = reply.n + 1, !.last = "invalidate"]
    /\ UNCHANGED <<db, cat, sess, fetches, rawg>>

\* Redis glob matching of SCAN ... MATCH pattern: `*` any run of characters,
\* `?` any one character, a backslash takes the next character literally
\* (character classes are not modelled: no pattern here has a bracket)
RECURSIVE stringmatch(_, _)
stringmatch(pattern, key) ==
    IF pattern = <<>> THEN key = <<>>
    ELSE IF pattern[1] = "*"
         THEN \/ stringmatch(Tail(pattern), key)
              \/ key # <<>> /\ stringmatch(pattern, Tail(key))
    ELSE IF pattern[1] = "?"
         THEN key # <<>> /\ stringmatch(Tail(pattern), Tail(key))
    ELSE IF pattern[1] = "\\" /\ Len(pattern) > 1
         THEN key # <<>> /\ key[1] = pattern[2]
              /\ stringmatch(Tail(Tail(pattern)), Tail(key))
    ELSE key # <<>> /\ key[1] = pattern[1] /\ stringmatch(Tail(pattern), Tail(key))

\* the keys scan_iter(match=pattern) yields at least once
scan_iter(pattern) == {key \in DOMAIN cache : stringmatch(pattern, key)}

\* RedisCacheRepository.clear_pattern through CacheService.invalidate_pattern:
\* every yielded key is deleted and counted; SCAN may yield a key more than
\* once, and `count += 1` runs for every yield
invalidate_pattern(pattern) ==
    LET keys == scan_iter(pattern)
    IN /\ reply.n < MaxCalls
       /\ cache' = [k \in DOMAIN cache \ keys |-> cache[k]]
       /\ \E repeats \in 0..(IF keys = {} THEN 0 ELSE MaxRepeats) :
             reply' = [reply EXCEPT !.n = reply.n + 1, !.last = "invalidate_pattern",
                                    !.pattern = pattern,
                                    !.count = Cardinality(keys) + repeats]
       /\ UNCHANGED <<db, cat, sess, fetches, rawg>>

\* Redis drops an entry stored with SETEX when its time is up
expire(key) ==
    /\ key \in DOMAIN cache
    /\ cache[key].expires
    /\ cache' = delete(cache, key)
    /\ UNCHANGED <<db, cat, sess, fetches, reply, rawg>>

----------------------------------------------------------------------------
\* Upstream client: RAWGClient._request

\* settings.RAWG_MAX_RETRIES
RAWG_MAX_RETRIES == 3

\* what one upstream call can come to: a response with a status code, a
\* timeout (httpx.TimeoutException) or another transport failure
\* (httpx.RequestError)
Outcomes ==
    [kind : {"response"}, status_code : {200, 301, 404, 429, 500, 503}]
        \cup [kind : {"TimeoutException", "RequestError"}, status_code : {0}]

\* no request made yet
NoRequest ==
    [pc |-> "idle", retry_count |-> 0, outcomes |-> <<>>, delays |-> <<>>,
     delay |-> 0, result |-> "none"]

\* a client that tries again after any failure
RetryableAny(outcome) ==
    \/ outcome.kind = "TimeoutException"
    \/ outcome.kind = "RequestError"
    \/ outcome.kind = "response" /\ outcome.status_code >= 300

\* the outcomes after which _request calls itself again: a 5xx response, which
\* is tested after the 429 test, and a timeout
Retryable(outcome) ==
    \/ outcome.kind = "TimeoutException"
    \/ /\ outcome.kind = "response"
       /\ outcome.status_code # 429
       /\ 500 <= outcome.status_code /\ outcome.status_code < 600

\* what an attempt ends the request with when it does not call itself again
Ends(outcome) ==
    IF outcome.kind = "TimeoutException" THEN "RAWGAPIError"
    ELSE IF outcome.kind = "RequestError" THEN "RAWGAPIError"
    ELSE IF outcome.status_code = 429 THEN "RateLimitError"
    ELSE IF 500 <= outcome.status_code /\ outcome.status_code < 600 THEN "RAWGAPIError"
    ELSE IF 400 <= outcome.status_code /\ outcome.status_code < 500 THEN "RAWGAPIError"
    \* response.raise_for_status() on a status outside 2xx
    ELSE IF ~(200 <= outcome.status_code /\ outcome.status_code < 300) THEN "HTTPStatusError"
    ELSE "returned"

\* a call of _request(method, endpoint, params) with retry_count = 0
request ==
    /\ rawg.pc \in {"idle", "done"}
    /\ rawg' = [NoRequest EXCEPT !.pc = "calling"]
    /\ UNCHANGED <<db, cat, sess, cache, fetches, reply>>

\* one upstream call and what _request does with its outcome
attempt(outcome) ==
    /\ rawg.pc = "calling"
    /\ rawg' =
          IF Retryable(outcome) /\ rawg.retry_count < RAWG_MAX_RETRIES
          THEN [rawg EXCEPT !.outcomes = Append(@, outcome),
                            !.delay = 2 ^ rawg.retry_count,
                            !.pc = "sleeping"]
          ELSE [rawg EXCEPT !.outcomes = Append(@, outcome),
                            !.pc = "done",
                            !.result = Ends(outcome)]
    /\ UNCHANGED <<db, cat, sess, cache, fetches, reply>>

\* `await asyncio.sleep(delay)` is over: _request(..., retry_count + 1)
sleep ==
    /\ rawg.pc = "sleeping"
    /\ rawg' = [rawg EXCEPT !.delays = Append(@, rawg.delay),
                            !.delay = 0,
                            !.retry_count = @ + 1,
                            !.pc = "calling"]
    /\ UNCHANGED <<db, cat, sess, cache, fetches, reply>>

----------------------------------------------------------------------------
\* Reviews (ReviewService / PostgresReviewRepository / routes/review.py)

MaxReviews == 3

\* get_user_review_for_game: the rows with this user and this game
get_user_review_for_game(user_id, game_id) ==
    {r \in reviews : r.user_id = user_id /\ r.game_id = game_id}

\* ReviewService.create_review up to the call of review_repo.create: the game
\* must exist and the user must have no review of it (ValueError, 400);
\* scalar_one_or_none() raises MultipleResultsFound when there are two
create_review(s, u, g) ==
    LET existing_review == get_user_review_for_game(u, g)
        answer(code, why) == [IdleSession EXCEPT !.pc = "responded", !.user_id = u,
                                                 !.arg_game = g, !.status_code = code,
                                                 !.result = why]
    IN /\ Accepts(s)
       /\ sess' = [sess EXCEPT ![s] =
              IF g \notin GameIds THEN answer(400, "Juego no encontrado")
              ELSE IF Cardinality(existing_review) > 1 THEN answer(500, "MultipleResultsFound")
              ELSE IF existing_review # {} THEN answer(400, "Ya has resenado")
              ELSE [IdleSession EXCEPT !.pc = "rv_checked", !.user_id = u, !.arg_game = g]]
       /\ UNCHANGED <<db, ext, cat>>

\* PostgresReviewRepository.create: add, commit (INSERT INTO reviews; the table
\* has the foreign key to game_catalog and the rating check, and no constraint
\* over (user_id, game_id)), and the 201 of the route
review_create(s) ==
    LET c == sess[s]
    IN /\ c.pc = "rv_checked"
       /\ next_review_id <= MaxReviews
       /\ IF c.arg_game \in GameIds
          THEN /\ reviews' = reviews \cup {[id |-> next_review_id, user_id |-> c.user_id,
                                            game_id |-> c.arg_game]}
               /\ next_review_id' = next_review_id + 1
               /\ sess' = [sess EXCEPT ![s] =
                      [IdleSession EXCEPT !.pc = "responded", !.user_id = c.user_id,
                                          !.arg_game = c.arg_game, !.arg_id = next_review_id,
                                          !.status_code = 201]]
          ELSE /\ sess' = [sess EXCEPT ![s] =
                      [IdleSession EXCEPT !.pc = "responded", !.user_id = c.user_id,
                                          !.arg_game = c.arg_game, !.status_code = 500,
                                          !.result = "IntegrityError"]]
               /\ UNCHANGED <<reviews, next_review_id>>
       /\ UNCHANGED <<db, ext, game_catalog, next_game_id>>

\* ReviewService.delete_review with the repository's delete: the row must be
\* the caller's own; db.delete and commit
delete_review(s, u, id) ==
    LET review == {r \in reviews : r.id = id}
        own == {r \in review : r.user_id = u}
    IN /\ Accepts(s)
       /\ reviews' = reviews \ own
       /\ sess' = [sess EXCEPT ![s] =
              [IdleSession EXCEPT !.pc = "responded", !.user_id = u, !.arg_id = id,
                                  !.status_code = IF own = {} THEN 404 ELSE 204]]
       /\ UNCHANGED <<db, ext, game_catalog, next_game_id, next_review_id>>

----------------------------------------------------------------------------
\* Catalog administration (GameCatalogService / PostgresGameCatalogRepository /
\* routes/game_catalog.py)

MaxGames == 4
MaxRawgId == 3

\* the id the sequence of game_catalog gives its n-th row
GameId(n) == <<"g1", "g2", "g3", "g4", "g5">>[n]

\* get_by_rawg_id: the rows with this rawg_id
get_by_rawg_id(rawg_id) == {r \in game_catalog : r.rawg_id = rawg_id}

\* a game_catalog table without the unique index on rawg_id
RawgIdTakenNever(rawg_id) == FALSE

\* the unique index on game_catalog.rawg_id
RawgIdTaken(rawg_id) == get_by_rawg_id(rawg_id) # {}

\* the response of an admin request
AdminAnswer(op, id, code, why) ==
    [IdleSession EXCEPT !.pc = "responded", !.user_id = "admin", !.arg_game = op,
                        !.arg_id = id, !.status_code = code, !.result = why]

\* GameCatalogService.create_product up to the call of RAWG: a product with
\* this rawg_id must not exist (ValueError, 400)
create_product(s, rawg_id) ==
    /\ Accepts(s)
    /\ sess' = [sess EXCEPT ![s] =
           IF get_by_rawg_id(rawg_id) # {}
           THEN AdminAnswer("create_product", rawg_id, 400, "ya existe")
           ELSE [IdleSession EXCEPT !.pc = "cp_checked", !.user_id = "admin",
                                    !.arg_id = rawg_id]]
    /\ UNCHANGED <<db, ext, cat>>

\* rawg.get_game_details(rawg_id): the game's metadata, or RAWGAPIError (503)
rawg_game_details(s, found) ==
    LET c == sess[s]
    IN /\ c.pc = "cp_checked"
       /\ sess' = [sess EXCEPT ![s] =
              IF found THEN [c EXCEPT !.pc = "cp_fetched"]
              ELSE AdminAnswer("create_product", c.arg_id, 503, "RAWGAPIError")]
       /\ UNCHANGED <<db, ext, cat>>

\* PostgresGameCatalogRepository.create: add, commit.  The INSERT draws the id
\* from the sequence and fails on the unique index when the rawg_id is there
\* by now: IntegrityError, which the route does not catch (500)
create(s) ==
    LET c == sess[s]
    IN /\ c.pc = "cp_fetched"
       /\ next_game_id <= MaxGames
       /\ next_game_id' = next_game_id + 1
       /\ IF RawgIdTaken(c.arg_id)
          THEN /\ sess' = [sess EXCEPT ![s] =
                      AdminAnswer("create_product", c.arg_id, 500, "IntegrityError")]
               /\ UNCHANGED game_catalog
          ELSE /\ game_catalog' = game_catalog \cup
                      {[id |-> GameId(next_game_id), rawg_id |-> c.arg_id]}
               /\ sess' = [sess EXCEPT ![s] =
                      AdminAnswer("create_product", c.arg_id, 201, GameId(next_game_id))]
       /\ UNCHANGED <<db, ext, reviews, next_review_id>>

\* an order_items table whose game_id may be emptied and is not restricted
ReferencedNever(g) == FALSE

\* GameCatalog.order_items of the game: the committed order lines that name it.
\* The relationship has no delete cascade, so the flush sets their game_id to
\* NULL, which the NOT NULL column refuses; the foreign key is ON DELETE RESTRICT
Referenced(g) == \E o \in orders : \E i \in 1..Len(o.items) : o.items[i].game_id = g

\* an open transaction holds a lock the DELETE has to wait for: the key share
\* lock of an inserted order line, the row lock of a stock update, or the row
\* lock of a cart line of the game
DeleteWaits(g) ==
    \/ \E t \in Sessions : \E o \in sess[t].order :
          \E i \in 1..Len(o.items) : o.items[i].game_id = g
    \/ GameLockedByAny(g)
    \/ \E i \in cart_items : i.game_id = g /\ ItemLockedByAny(i.id)

\* delete_product with PostgresGameCatalogRepository.delete: get_by_id (404
\* when there is no such game), db.delete, commit.  The game's cart lines and
\* reviews go with it (cascade="all, delete-orphan"); a game that order lines
\* name stays, with IntegrityError, which the route does not catch (500)
delete_product(s, g) ==
    /\ Accepts(s)
    /\ IF g \notin GameIds
       THEN /\ sess' = [sess EXCEPT ![s] = AdminAnswer(g, 0, 404, "no encontrado")]
            /\ UNCHANGED <<cart_items, game_catalog, reviews>>
       ELSE /\ ~DeleteWaits(g)
            /\ IF Referenced(g)
               THEN /\ sess' = [sess EXCEPT ![s] = AdminAnswer(g, 0, 500, "IntegrityError")]
                    /\ UNCHANGED <<cart_items, game_catalog, reviews>>
               ELSE /\ sess' = [sess EXCEPT ![s] = AdminAnswer(g, 0, 204, "")]
                    /\ game_catalog' = {r \in game_catalog : r.id # g}
                    /\ cart_items' = {i \in cart_items : i.game_id # g}
                    /\ reviews' = {r \in reviews : r.game_id # g}
    /\ UNCHANGED <<stock, price, carts, next_item_id, orders, next_order_id, clock, ext,
                   next_game_id, next_review_id>>

----------------------------------------------------------------------------
Init ==
    /\ stock = [g \in Products |-> MaxStock]
    /\ price = [g \in Products |-> IF g = "g1" THEN 5999 ELSE 3999]
    /\ carts = {}
    /\ cart_items = {}
    /\ next_item_id = 1
    /\ orders = {}
    /\ next_order_id = 1
    /\ clock = 0
    /\ sess = [s \in Sessions |-> IdleSession]
    /\ cache = <<>>
    /\ fetches = <<>>
    /\ reply = NoReply
    /\ rawg = NoRequest
    /\ game_catalog = {[id |-> "g1", rawg_id |-> 1], [id |-> "g2", rawg_id |-> 2]}
    /\ next_game_id = 3
    /\ reviews = {}
    /\ next_review_id = 1

\* the steps of a checkout once its cart is loaded, and the end of a request
Checkout(s) ==
    \/ raise_empty_cart(s)
    \/ raise_insufficient_stock(s)
    \/ create_from_cart(s)
    \/ reduce_stock(s)
    \/ clear_cart(s)
    \/ exit_transaction(s)
    \/ close_session(s)

\* Concurrent checkouts of two users over two products
Next ==
    \/ \E s \in Sessions, u \in Users, t \in BOOLEAN :
          get_cart_with_items_for_update(s, u, "none", t)
    \/ \E s \in Sessions : Checkout(s)
    \/ \E s \in Sessions, u \in Users, g \in Products, q \in 1..MaxQty : add_to_cart(s, u, g, q)
    \/ \E s \in Sessions : add_item(s)

Spec == Init /\ [][Next]_vars

\* Checkouts of one product against the other stock operations
NextStock ==
    \/ \E s \in Sessions, u \in Users, t \in BOOLEAN :
          get_cart_with_items_for_update(s, u, "none", t)
    \/ \E s \in Sessions : Checkout(s)
    \/ \E s \in Sessions, u \in Users, q \in 1..MaxQty : add_to_cart(s, u, "g1", q)
    \/ \E s \in Sessions : add_item(s)
    \/ \E st \in 0..MaxStock : update("g1", [f \in {"stock"} |-> st])
    \/ \E s \in Sessions, op \in {"reduce_stock", "increase_stock"}, q \in 1..MaxQty :
          get_game(s, op, "g1", q)
    \/ \E s \in Sessions : reduce_stock_commit(s)
    \/ \E s \in Sessions : increase_stock_commit(s)

SpecStock == Init /\ [][NextStock]_vars

\* Checkouts of one user that carry a payment reference, with the cart edited
NextAtomic ==
    \/ \E s \in Sessions, ref \in Refs, t \in BOOLEAN :
          get_cart_with_items_for_update(s, "u1", ref, t)
    \/ \E s \in Sessions : Checkout(s)
    \/ \E s \in Sessions, q \in 1..MaxQty : add_to_cart(s, "u1", "g1", q)
    \/ \E s \in Sessions : add_item(s)
    \/ \E s \in Sessions, id \in 1..MaxItems, q \in 1..MaxQty : update_item(s, "u1", id, q)
    \/ \E s \in Sessions, id \in 1..MaxItems : remove_item(s, "u1", id)

SpecAtomic == Init /\ [][NextAtomic]_vars

\* Requests served one at a time: orders, their prices, status and retrieval
NextOrders ==
    \/ \E u \in Users : get_cart_with_items_for_update("s1", u, "none", FALSE)
    \/ Checkout("s1")
    \/ \E u \in Users, g \in Products, q \in 1..MaxQty : add_to_cart("s1", u, g, q)
    \/ add_item("s1")
    \/ \E g \in Products, p \in PriceSet : update(g, [f \in {"price"} |-> p])
    \/ \E id \in 1..MaxOrders, status \in OrderStatus : update_status(id, status)
    \/ \E id \in 1..MaxOrders, u \in Users : get_order_details("s1", id, u)

SpecOrders == Init /\ [][NextOrders]_vars


\* the patterns invalidate_pattern is called with: the one its interface
\* documents, "rawg:game:*", the same prefix without the star, and "rawg:*"
Patterns ==
    { T_rawg \o <<":">> \o T_game \o <<":", "*">>,
      T_rawg \o <<":">> \o T_game \o <<":">>,
      T_rawg \o <<":", "*">> }

\* what fetch_func raises: the client's errors
FetchErrors == {"RAWGAPIError", "RateLimitError"}

\* The cache service under catalog reads, invalidation and expiry
NextCache ==
    \/ \E game_id \in 1..2 : get_game_details(game_id)
    \/ search_games(<<"z">>, 1, 20, None, None)
    \/ list_genres
    \/ \E fresh_data \in Data : fetch_returns(fresh_data)
    \/ \E error \in FetchErrors : fetch_raises(error)
    \/ \E key \in DOMAIN cache : invalidate(key)
    \/ \E pattern \in Patterns : invalidate_pattern(pattern)
    \/ \E key \in DOMAIN cache : expire(key)

SpecCache == Init /\ [][NextCache]_vars

\* the genre and platform filters a search is made with
GenreFilters == {None, Some(T_none), Some(<<"4">>), Some(<<"4", ":", "p", "l", "7">>)}
PlatformFilters == {None, Some(<<"7">>), Some(<<"7", ":", "p", "l">> \o T_none)}

\* Searches over the parameters that make up the cache key
NextKeys ==
    \/ \E page \in 1..2, genres \in GenreFilters, platforms \in PlatformFilters :
          search_games(<<"z">>, page, 20, genres, platforms)
    \/ fetch_returns([count |-> 1])

SpecKeys == Init /\ [][NextKeys]_vars

\* Requests of the upstream client against every course of upstream outcomes
NextClient ==
    \/ request
    \/ \E outcome \in Outcomes : attempt(outcome)
    \/ sleep

SpecClient == Init /\ [][NextClient]_vars

\* The carts of two users edited by both
NextCart ==
    \/ \E s \in Sessions, u \in Users, g \in Products, q \in 1..MaxQty : add_to_cart(s, u, g, q)
    \/ \E s \in Sessions : add_item(s)
    \/ \E s \in Sessions, u \in Users, id \in 1..(MaxItems + 1), q \in 1..MaxQty :
          update_item(s, u, id, q)
    \/ \E s \in Sessions, u \in Users, id \in 1..(MaxItems + 1) : remove_item(s, u, id)
    \/ \E s \in Sessions : close_session(s)

SpecCart == Init /\ [][NextCart]_vars

\* Reviews written by two users in concurrent requests
NextReviews ==
    \/ \E s \in Sessions, u \in Users, g \in Products : create_review(s, u, g)
    \/ \E s \in Sessions : review_create(s)
    \/ \E s \in Sessions, u \in Users, id \in 1..MaxReviews : delete_review(s, u, id)
    \/ \E s \in Sessions : close_session(s)

SpecReviews == Init /\ [][NextReviews]_vars

\* The catalog's administration beside one user's cart and checkout
NextCatalog ==
    \/ \E s \in Sessions, rawg_id \in 1..MaxRawgId : create_product(s, rawg_id)
    \/ \E s \in Sessions, found \in BOOLEAN : rawg_game_details(s, found)
    \/ \E s \in Sessions : create(s)
    \/ \E s \in Sessions, g \in Products : delete_product(s, g)
    \/ update("g1", [f \in {"price"} |-> 3999])
    \/ \E s \in Sessions, g \in Products : add_to_cart(s, "u1", g, 1)
    \/ \E s \in Sessions : add_item(s)
    \/ \E s \in Sessions : get_cart_with_items_for_update(s, "u1", "none", FALSE)
    \/ \E s \in Sessions : Checkout(s)

SpecCatalog == Init /\ [][NextCatalog]_vars

----------------------------------------------------------------------------
\* Properties

\* a checkout that holds its loaded cart and has passed the stock validation
PastStockCheck(c) == c.pc \in {"ck_ordered", "ck_cleared"}

\* units of product g the whole loaded cart asks for
Need(c, g) == LineQty(c.items, Len(c.items), g)

\* C1: two concurrent checkouts of different users on a product whose stock
\* covers only one of them never both pass the stock check on that same stock,
\* and at most one of them commits: two committed orders of different users never
\* hold more units of a product than were in stock (under Spec nothing restocks).
C1_LastUnitsSoldOnce ==
    /\ \A s, t \in Sessions : \A g \in Products :
          (/\ s # t
           /\ sess[s].user_id # sess[t].user_id
           /\ PastStockCheck(sess[s]) /\ PastStockCheck(sess[t])
           /\ Need(sess[s], g) > 0 /\ Need(sess[t], g) > 0
           /\ sess[s].seen[g] = sess[t].seen[g])
          => Need(sess[s], g) + Need(sess[t], g) <= sess[s].seen[g]
    /\ \A o, p \in orders : \A g \in Products :
          o.user_id # p.user_id
          => LineQty(o.items, Len(o.items), g) + LineQty(p.items, Len(p.items), g) <= MaxStock

\* C2: two concurrent checkouts of the same user never both hold the same
\* pre-checkout cart lines: the second one loads the cart only when the first
\* has committed or rolled back.
C2_SameUserCheckoutsSerialized ==
    \A s, t \in Sessions :
        (/\ s # t
         /\ sess[s].user_id = sess[t].user_id
         /\ sess[s].pc \in {"ck_loaded", "ck_ordered", "ck_cleared"}
         /\ sess[t].pc \in {"ck_loaded", "ck_ordered", "ck_cleared"})
        => {sess[s].items[i].id : i \in 1..Len(sess[s].items)} \cap
           {sess[t].items[i].id : i \in 1..Len(sess[t].items)} = {}

\* C3: the stock of every product is never negative, in the table and in the
\* value a checkout has written and not yet committed, whatever checkouts, stock
\* decrements and increments and administrative updates interleave.
C3_StockNeverNegative ==
    /\ \A g \in Products : stock[g] >= 0
    /\ \A s \in Sessions : \A g \in sess[s].written : CurStock(sess[s], g) >= 0

\* a decrement request is in flight against a product that checkouts sold out
C3_Witness ==
    /\ stock["g1"] = 0
    /\ \E o \in orders : LineQty(o.items, Len(o.items), "g1") > 0
    /\ \E s \in Sessions : sess[s].pc = "reduce_stock" /\ sess[s].arg_game = "g1"

\* C4: a checkout whose loaded cart is missing or empty, or holds a line its
\* product's loaded stock does not cover, fails with EmptyCart or
\* InsufficientStock; the step that fails it, and the end of its request, change
\* no table: no order, every stock as before, every cart line as before.
C4_ValidationFailureChangesNothing ==
    [][\A s \in Sessions :
          LET c == sess[s]
              invalid == \/ ~c.cart
                         \/ c.items = <<>>
                         \/ \E i \in 1..Len(c.items) :
                               c.seen[c.items[i].game_id] < c.items[i].quantity
          IN /\ (c.pc = "ck_loaded" /\ invalid /\ sess'[s] # c)
                => /\ sess'[s].pc = "ck_failed"
                   /\ sess'[s].result \in {"EmptyCart", "InsufficientStock"}
                   /\ sess'[s].created = 0
                   /\ sess'[s].order = {} /\ sess'[s].written = {} /\ sess'[s].deleted = {}
                   /\ sess'[s].effects = {}
                   /\ UNCHANGED db
             /\ (c.pc = "ck_failed" /\ c.created = 0 /\ sess'[s] # c)
                => /\ sess'[s] = IdleSession
                   /\ UNCHANGED db]_vars

\* a checkout has failed its validation on stock while its user's cart has lines
C4_Witness ==
    \E s \in Sessions :
        /\ sess[s].pc = "ck_failed"
        /\ sess[s].result = "InsufficientStock"
        /\ sess[s].created = 0
        /\ CartItemsOf(sess[s].user_id) # {}

\* C5: a checkout that fails after its writes began (the unique index on the
\* payment reference rejects the order, or reduce_stock raises on a later line)
\* is rolled back whole: it holds no pending write, none of its writes was
\* committed, and its order is not in the orders table.
C5_FailedCheckoutRolledBack ==
    \A s \in Sessions :
        sess[s].pc = "ck_failed"
        => /\ sess[s].order = {} /\ sess[s].written = {} /\ sess[s].deleted = {}
           /\ sess[s].effects = {}
           /\ \A o \in orders : o.id # sess[s].created

\* reduce_stock has raised on a later line, after the order was inserted and an
\* earlier line decremented
C5_Witness ==
    \E s \in Sessions :
        /\ sess[s].pc = "ck_failed"
        /\ sess[s].result = "InsufficientStock"
        /\ sess[s].created > 0

\* C6: when a checkout has succeeded (the transaction block is left and the
\* order returned), the stock of every product of the cart is lower than before
\* by exactly the quantity of its lines, no other stock has changed, and the
\* order is in the orders table, PENDING, with one order line per cart line.
C6_SuccessfulCheckoutEffects ==
    [][\A s \in Sessions :
          LET c == sess[s]
          IN (c.pc = "ck_cleared" /\ sess'[s].pc = "ck_returned")
             => /\ \A g \in Products : stock'[g] = stock[g] - Need(c, g)
                /\ \E o \in orders' :
                      /\ o.id = c.created
                      /\ o.user_id = c.user_id
                      /\ o.status = "pending"
                      /\ Len(o.items) = Len(c.items)
                      /\ \A i \in 1..Len(c.items) :
                            /\ o.items[i].game_id = c.items[i].game_id
                            /\ o.items[i].quantity = c.items[i].quantity]_vars

\* C7: when a checkout has succeeded, the cart of its user has no lines and the
\* lines of every other user's cart are as before.
C7_SuccessfulCheckoutEmptiesCart ==
    [][\A s \in Sessions :
          (sess[s].pc = "ck_cleared" /\ sess'[s].pc = "ck_returned")
          => /\ {i \in cart_items' : i.user_id = sess[s].user_id} = {}
             /\ \A u \in Users \ {sess[s].user_id} :
                   {i \in cart_items' : i.user_id = u} = CartItemsOf(u)]_vars

\* what of an order never changes
Frozen(o) ==
    [id |-> o.id, user_id |-> o.user_id, subtotal |-> o.subtotal, tax |-> o.tax,
     total |-> o.total, ref |-> o.ref, items |-> o.items]

\* C8: an order, once in the orders table, stays there and keeps its id, user,
\* subtotal, tax, total, payment reference and lines, whatever price changes,
\* status updates and other checkouts follow; only its status and its
\* completion timestamp change.
C8_OrderImmutable ==
    [][\A o \in orders : \E p \in orders' : Frozen(p) = Frozen(o)]_vars

\* a completed order whose product has since changed its price, beside a later order
C8_Witness ==
    \E o, p \in orders :
        /\ o.id < p.id
        /\ o.status = "completed" /\ o.completed_at > 0
        /\ \E i \in 1..Len(o.items) : o.items[i].unit_price # price[o.items[i].game_id]

\* the orders of the table and the orders inserted and not yet committed
AllOrders == orders \cup UNION {sess[s].order : s \in Sessions}

C10_NotOwnerAsNotFound ==
    \A s \in Sessions :
        (/\ sess[s].pc = "responded"
         /\ \E o \in orders : o.id = sess[s].arg_id /\ o.user_id # sess[s].user_id)
        => LET none == Response(get_order({}, sess[s].arg_id, sess[s].user_id),
                                sess[s].arg_id)
           IN /\ sess[s].status_code = none.status_code
              /\ sess[s].body = none.body
              /\ sess[s].status_code = 404

\* a user has asked for an order of another user, and the owner has been served it
C10_Witness ==
    \E s \in Sessions : \E o \in orders :
        /\ sess[s].pc = "responded"
        /\ o.id = sess[s].arg_id
        /\ o.user_id # sess[s].user_id
        /\ sess[s].status_code = 404

\* C11: the completion timestamp of an order is set once, by the first
\* transition into COMPLETED: no later update_status, setting COMPLETED again
\* included, changes a completion timestamp that is set.
C11_CompletedAtSetOnce ==
    [][\A o \in orders :
          o.completed_at # 0
          => \E p \in orders' : p.id = o.id /\ p.completed_at = o.completed_at]_vars

\* a get_or_set call starts in this step
Called == reply'.n = reply.n + 1 /\ reply'.last = "get_or_set"

\* C12: for any key, two successive get_or_set calls with the same key, with no
\* invalidation or expiry between them, invoke the compute function exactly
\* once: the call that misses runs it once and stores its result, and a call
\* that finds the key runs nothing, is a hit and returns the stored value.
C12_SecondCallIsHit ==
    [][/\ (Called /\ reply'.key \notin DOMAIN cache)
          => /\ reply'.pc = "fetching"
             /\ fetches'[reply'.key].n = Invocations(reply'.key) + 1
       /\ (reply.pc = "fetching" /\ reply'.pc = "returned")
          => /\ reply'.key \in DOMAIN cache'
             /\ cache'[reply'.key].value = json_dumps(reply'.value[1])
             /\ json_loads(cache'[reply'.key].value) = reply'.value[1]
             /\ fetches' = fetches
       /\ (Called /\ reply'.key \in DOMAIN cache)
          => /\ reply'.pc = "returned" /\ reply'.hit
             /\ reply'.value = Some(json_loads(cache[reply'.key].value))
             /\ fetches'[reply'.key].n = Invocations(reply'.key)
             /\ cache' = cache]_vars

\* the second of two calls has been a hit, the compute function having run once
C12_Witness ==
    /\ reply.n = 2 /\ reply.last = "get_or_set" /\ reply.after = "returned"
    /\ reply.pc = "returned" /\ reply.hit
    /\ Invocations(reply.key) = 1
    /\ fetches[reply.key].requests = {reply.request}

\* C13: when the compute function raises during get_or_set on a miss, the
\* error reaches the caller, the cache store is unchanged and has no entry for
\* the key, and the next get_or_set for that key runs the compute function
\* again.
C13_ComputeErrorNotCached ==
    [][/\ (reply.pc = "fetching" /\ reply'.pc # "fetching")
          => \/ reply'.pc = "returned"
             \/ /\ reply'.pc = "raised"
                /\ reply'.error \in FetchErrors
                /\ cache' = cache
                /\ reply'.key \notin DOMAIN cache'
       /\ (reply.pc = "raised" /\ Called /\ reply'.key = reply.key
            /\ reply'.key \notin DOMAIN cache)
          => /\ reply'.pc = "fetching"
             /\ fetches'[reply'.key].n = Invocations(reply'.key) + 1]_vars

\* the call after one whose compute function raised is computing again
C13_Witness ==
    /\ reply.n = 2 /\ reply.after = "raised" /\ reply.pc = "fetching"
    /\ Invocations(reply.key) = 2
    /\ reply.key \notin DOMAIN cache

\* C14: the search cache key is an injective function of (query, page, page
\* size, genre filter, platform filter): the searches that were given one key
\* all had the same parameters.
C14_SearchKeyInjective ==
    \A key \in DOMAIN fetches : Cardinality(fetches[key].requests) <= 1

\* key.startswith(prefix)
startswith(key, prefix) ==
    Len(key) >= Len(prefix) /\ SubSeq(key, 1, Len(prefix)) = prefix

\* the prefix a pattern stands for: pattern.replace("*", "")
PrefixOf(pattern) == SelectSeq(pattern, LAMBDA ch : ch # "*")

\* C15: invalidating by a prefix removes exactly the keys that begin with that
\* prefix, returns the number of keys removed and leaves every other key and
\* its value unchanged.
C15_PrefixInvalidation ==
    [][(reply'.n = reply.n + 1 /\ reply'.last = "invalidate_pattern")
       => LET prefix == PrefixOf(reply'.pattern)
              removed == {key \in DOMAIN cache : startswith(key, prefix)}
          IN /\ DOMAIN cache' = DOMAIN cache \ removed
             /\ \A key \in DOMAIN cache' : cache'[key] = cache[key]
             /\ reply'.count = Cardinality(removed)]_vars

\* a response with a status code in lo..hi-1
StatusIn(outcome, lo, hi) ==
    outcome.kind = "response" /\ lo <= outcome.status_code /\ outcome.status_code < hi

\* the errors of the client: RAWGAPIError and its subclass RateLimitError
UpstreamErrors == {"RAWGAPIError", "RateLimitError"}

\* C16: for every sequence of upstream outcomes the client makes a further
\* attempt only after a 5xx or a timeout, waits 2^k seconds before retry k+1,
\* makes at most max_retries retries with one counter for both, returns the
\* first successful response and otherwise ends with an upstream error; 500,
\* 500, 200 gives three upstream calls, delays of 1s and 2s, and a result.
C16_RetryWithBackoff ==
    LET n == Len(rawg.outcomes)
        last == rawg.outcomes[n]
    IN /\ \A i \in 1..(n - 1) :
             \/ StatusIn(rawg.outcomes[i], 500, 600)
             \/ rawg.outcomes[i].kind = "TimeoutException"
       /\ \A k \in 0..(Len(rawg.delays) - 1) : rawg.delays[k + 1] = 2 ^ k
       /\ Len(rawg.delays) <= RAWG_MAX_RETRIES
       /\ n <= RAWG_MAX_RETRIES + 1
       /\ rawg.pc = "calling" => Len(rawg.delays) = n
       /\ rawg.pc = "done"
          => /\ Len(rawg.delays) = n - 1
             /\ IF StatusIn(last, 200, 300)
                THEN rawg.result = "returned"
                ELSE rawg.result \in UpstreamErrors
       /\ (rawg.pc = "done" /\ n = 3
           /\ rawg.outcomes[1].status_code = 500 /\ rawg.outcomes[2].status_code = 500
           /\ rawg.outcomes[3].status_code = 200)
          => rawg.delays = <<1, 2>> /\ rawg.result = "returned"

\* C17: a 4xx response is never retried: it is the last upstream call of its
\* request, which ends with RateLimitError when the status is 429, at whatever
\* attempt, and with RAWGAPIError for any other 4xx.
C17_ClientErrorsNotRetried ==
    \A i \in 1..Len(rawg.outcomes) :
        StatusIn(rawg.outcomes[i], 400, 500)
        => /\ i = Len(rawg.outcomes)
           /\ rawg.pc = "done"
           /\ rawg.result = IF rawg.outcomes[i].status_code = 429
                             THEN "RateLimitError" ELSE "RAWGAPIError"

\* a 429 has ended a request at its third attempt, after two retries
C17_Witness ==
    /\ rawg.pc = "done"
    /\ Len(rawg.outcomes) = 3 /\ rawg.outcomes[3].status_code = 429
    /\ rawg.result = "RateLimitError"
    /\ rawg.delays = <<1, 2>>

\* C18: in every reachable state, also after concurrent add_item calls for the
\* same user and product, a cart has at most one line per product.
C18_OneLinePerProduct ==
    \A i, j \in cart_items :
        (i.user_id = j.user_id /\ i.game_id = j.game_id) => i.id = j.id

\* C19: a user cannot add more units of a product to the cart than its stock:
\* an add_to_cart that goes on to write the line leaves the line with at most
\* the stock of the time of the call, the units already in the line included,
\* and the line it writes holds those units plus the requested ones.
C19_AddWithinStock ==
    [][\A s \in Sessions :
          LET c == sess'[s]
              held == IF c.items = <<>> THEN 0 ELSE c.items[1].quantity
          IN /\ (sess[s].pc = "idle" /\ c.pc = "add_read")
                => held + c.arg_qty <= stock[c.arg_game]
             /\ (sess[s].pc = "add_read" /\ c.pc = "idle")
                => \E i \in cart_items' :
                      /\ i.user_id = sess[s].user_id /\ i.game_id = sess[s].arg_game
                      /\ i.quantity >= sess[s].arg_qty]_vars

C26_ReturnedIsCommitted ==
    [][\A s \in Sessions :
          LET c == sess'[s]
          IN /\ c.pc = "ck_returned"
                => /\ \E o \in orders' : o.id = c.created
                   /\ c.order = {} /\ c.written = {} /\ c.deleted = {}
             /\ (sess[s].pc = "ck_returned" /\ c.pc = "idle")
                => \E o \in orders' : o.id = sess[s].created]_vars

\* C27: a checkout that stalls while it holds its locks blocks only later
\* checkouts of the same user: whatever products the carts of two different
\* users hold, the next write of one user's checkout never has to wait for a
\* lock held by the other user's uncommitted checkout.
C27_OtherUsersNotBlocked ==
    \A s, t \in Sessions :
        (/\ s # t
         /\ sess[s].user_id # sess[t].user_id
         /\ sess[s].written # {}
         /\ sess[t].pc = "ck_ordered")
        => /\ (/\ sess[t].idx < Len(sess[t].items)
               /\ ~Insufficient(CurStock(sess[t], sess[t].items[sess[t].idx + 1].game_id),
                                sess[t].items[sess[t].idx + 1].quantity))
              => ~GameLocked(t, sess[t].items[sess[t].idx + 1].game_id)
           /\ sess[t].idx = Len(sess[t].items)
              => \A i \in 1..Len(sess[t].items) : ~ItemLocked(t, sess[t].items[i].id)

\* units of product g in the lines of the committed orders
Sold(g) ==
    LET os == SetToSeqById(orders)
    IN SumSeq([k \in 1..Len(os) |-> LineQty(os[k].items, Len(os[k].items), g)])

\* C28: units are conserved: for every product, no administrative update or
\* increase_stock touching it, the initial stock is the current stock plus the
\* units in the lines of all committed orders, after any interleaving of
\* checkouts.
C28_UnitsConserved ==
    \A g \in Products : MaxStock = stock[g] + Sold(g)

\* C29: when add_item, update_item_quantity or remove_item of a user run
\* beside that user's checkout, the order the checkout commits holds exactly
\* the (product, quantity) lines its commit takes out of the cart: as many
\* lines, with the same products and quantities.
C29_OrderIsWhatLeftTheCart ==
    [][\A s \in Sessions :
          (sess[s].pc = "ck_cleared" /\ sess'[s].pc = "ck_returned" /\ orders' # orders)
          => LET removed == cart_items \ cart_items'
             IN \A o \in orders' \ orders :
                   /\ Len(o.items) = Cardinality(removed)
                   /\ {<<o.items[i].game_id, o.items[i].quantity>> : i \in 1..Len(o.items)}
                        = {<<i.game_id, i.quantity>> : i \in removed}
                   /\ \A i \in removed : i.user_id = o.user_id]_vars

\* C30: an order enters the orders table PENDING with no completion
\* timestamp; in every state a COMPLETED order has a completion timestamp; and
\* no step clears a completion timestamp that is set, a move from COMPLETED to
\* another status included.
C30_CompletedAtKept ==
    [][/\ \A p \in orders' :
             (\A o \in orders : o.id # p.id) => (p.status = "pending" /\ p.completed_at = 0)
       /\ \A p \in orders' : p.status = "completed" => p.completed_at # 0
       /\ \A o \in orders : \A p \in orders' :
             (p.id = o.id /\ o.completed_at # 0) => p.completed_at # 0]_vars

\* an order that was completed and has since moved to another status
C30_Witness ==
    \E o \in orders : o.status \notin {"completed", "pending"} /\ o.completed_at # 0

\* C21: in every state there is at most one review per (user, product) pair,
\* concurrent create_review calls of one user for one product included, and a
\* create_review answered with an error has added no row.
C21_OneReviewPerUserAndGame ==
    \A r, q \in reviews : (r.user_id = q.user_id /\ r.game_id = q.game_id) => r.id = q.id

\* C22: no two game_catalog rows share a rawg_id and no step changes the
\* rawg_id of a row; a create_product whose rawg_id is in the table when it is
\* answered, be it at its check or at its INSERT after a concurrent creation,
\* is refused with the duplicate error ("ya existe", 400) and adds no row.
C22_RawgIdUnique ==
    [][/\ \A r, q \in game_catalog' : r.rawg_id = q.rawg_id => r.id = q.id
       /\ \A r \in game_catalog : \A q \in game_catalog' :
             q.id = r.id => q.rawg_id = r.rawg_id
       /\ \A s \in Sessions :
             (/\ sess[s].pc \in {"idle", "cp_fetched"}
              /\ sess'[s].pc = "responded"
              /\ sess'[s].arg_game = "create_product"
              /\ \E r \in game_catalog : r.rawg_id = sess'[s].arg_id)
             => /\ sess'[s].status_code = 400
                /\ sess'[s].result = "ya existe"
                /\ game_catalog' = game_catalog]_vars

\* some committed order line of the table names the game
OrderLineOn(tbl, g) == \E o \in tbl : \E i \in 1..Len(o.items) : o.items[i].game_id = g

====
